---- MODULE Spec2Model ----
(***************************************************************************)
(* Actuation and sensing layer of OpenRoboRL: the two robot classes        *)
(* Quadruped (robots/quadruped.py) and Minitaur                            *)
(* (envs/quadruped_robot/robots/minitaur.py).                              *)
(*                                                                         *)
(* Units.  Times (time_step, latencies, OVERHEAT_SHUTDOWN_TIME) are whole  *)
(* numbers of one time unit, torques are hundredths of a newton metre,     *)
(* angles are whole numbers of an angle unit of which TWO_PI make a turn.  *)
(* A value the code computes by a                                          *)
(* division is kept as an exact fraction [n |-> numerator, d |-> d > 0];   *)
(* the code works in IEEE doubles, the model in exact arithmetic.          *)
(*                                                                         *)
(* The physics engine, the motor model (robot_motor / minitaur_motor), the *)
(* Butterworth filter (action_filter) and the policy are outside the       *)
(* modelled files: their outputs are drawn from the ranges held in env.    *)
(* The constructors hard-wire _motor_overheat_protection,                  *)
(* _enable_action_interpolation and _enable_action_filter; the model lets  *)
(* the configuration choose them, as the code that reads them does.        *)
(***************************************************************************)
EXTENDS Integers, Sequences, FiniteSets, TLC

VARIABLES
  robot,                      \* which class is running: "Quadruped" or "Minitaur"
  time_step,                  \* sim_time_step / time_step
  action_repeat,              \* _action_repeat
  control_latency,            \* _control_latency
  motor_overheat_protection,  \* _motor_overheat_protection
  enable_action_interpolation,\* _enable_action_interpolation
  enable_action_filter,       \* _enable_action_filter
  env,                        \* ranges of the collaborators' outputs
  pc,                         \* position of the running operation
  substep,                    \* loop index i of the control step
  settle_left,                \* iterations left in _SettleDownForReset
  joint_states,               \* true motor angles read by the last ReceiveObservation
  observation_history,        \* _observation_history, newest first
  control_observation,        \* _control_observation
  overheat_counter,           \* _overheat_counter
  motor_enabled_list,         \* _motor_enabled_list
  actual_torque,              \* motor model output of the last ApplyAction
  motor_commands,             \* clipped command handed to the motor model
  motor_torques,              \* torques handed to _SetMotorTorqueByIds
  hot_steps,                  \* history: steps above the threshold since the reset
  prev_target,                \* history: target of the episode's previous control step
  action,                     \* target action of the control step (self._action)
  filter_action,              \* _filter_action, None or a vector
  prev_action,                \* prev_action of the last ProcessAction
  proc_action,                \* proc_action of the last ProcessAction
  filter_history,             \* state of the action filter's history
  filter_seed,                \* vector last given to init_history, None after reset()
  step_counter,               \* _step_counter / step_counter
  state_action_counter,       \* _state_action_counter
  last_op,                    \* name of the operation that ran last
  sensors,                    \* _sensors: sensor names in registration order
  sensor_value,               \* what each sensor's get_observation() returns
  sensor_log,                 \* history: sensor calls of the running operation
  observations,               \* the observation composed last, None before
  randomization_param_dict,   \* the randomizer's configuration, insertion order
  enable_randomizer,          \* _enable_randomizer
  suspend_randomization,      \* _suspend_randomization
  randomization_param_value_dict, \* the stored sample, by parameter name
  battery_voltage,            \* voltage of the motor model
  motor_strength_ratios,      \* strength ratios of the motor model
  randomization_seed,         \* _randomization_seed, NoSeed or a seed
  np_random,                  \* position of _np_random in the stream of its seed
  setter_log,                 \* history: setter calls of the last pass or replay
  rand_draws,                 \* history: random draws of the last pass or replay
  rand_error,                 \* exception the last randomizer call raised, or "none"
  dynamics,                   \* masses and inertias of the links in the simulator
  setter_call,                \* history: argument and outcome of the last dynamics setter
  episode                     \* history: the reset that began the episode and its randomize_env calls

sensvars == <<sensors, sensor_value, sensor_log, observations>>

randvars == <<randomization_param_dict, enable_randomizer,
              suspend_randomization, randomization_param_value_dict,
              battery_voltage, motor_strength_ratios, np_random, setter_log,
              rand_draws, rand_error>>

\* the configuration a randomizer call leaves alone
fixedvars == <<robot, time_step, action_repeat, motor_overheat_protection,
               enable_action_interpolation, enable_action_filter, env,
               randomization_seed>>

cfgvars == <<robot, time_step, action_repeat, control_latency,
             motor_overheat_protection, enable_action_interpolation,
             enable_action_filter, env, randomization_seed>>

vars == <<robot, time_step, action_repeat, control_latency,
          motor_overheat_protection, enable_action_interpolation,
          enable_action_filter, env, pc, substep, settle_left, joint_states,
          observation_history, control_observation, overheat_counter,
          motor_enabled_list, actual_torque, motor_commands, motor_torques,
          hot_steps, prev_target, action,
          filter_action, prev_action, proc_action, filter_history,
          filter_seed, step_counter, state_action_counter, last_op,
          sensors, sensor_value, sensor_log, observations,
          randomization_param_dict, enable_randomizer, suspend_randomization,
          randomization_param_value_dict, battery_voltage,
          motor_strength_ratios, setter_log, rand_draws, rand_error,
          dynamics, setter_call, randomization_seed, np_random, episode>>

(***************************************************************************)
(* Bounds of the model.                                                    *)
(***************************************************************************)
NumMotors == 2
HistoryCapacity == 5          \* deque(maxlen=100) in the code
OverheatShutdownTime == 3     \* OVERHEAT_SHUTDOWN_TIME, in time units
MaxControlSteps == 3          \* control steps modelled per episode
SettleSteps == 1              \* range(500) in _SettleDownForReset
NumChassisLinks == 2          \* len(_chassis_link_ids), set by the URDF
NumLegLinks == 1              \* len(_leg_link_ids), set by the URDF
NumMotorLinks == 1            \* len(_motor_link_ids), set by the URDF

(***************************************************************************)
(* Program constants.                                                      *)
(***************************************************************************)
OVERHEAT_SHUTDOWN_TORQUE == 245
MAX_MOTOR_ANGLE_CHANGE_PER_STEP == 3
TWO_PI == 16
PdLatency == 0
NoiseStdev == 0

Motors == 1..NumMotors
None == << >>               \* Python None, where a vector is expected
PI == TWO_PI \div 2

\* robot.JOINT_DIRECTIONS
MotorDirection == [m \in Motors |-> IF m = 1 THEN 1 ELSE -1]

\* robot.INIT_MOTOR_ANGLES
InitMotorAngle == [m \in Motors |-> IF m = 1 THEN 2 ELSE 1]

Min(a, b) == IF a <= b THEN a ELSE b
Abs(x) == IF x < 0 THEN -x ELSE x

(***************************************************************************)
(* Exact fractions.                                                        *)
(***************************************************************************)
Rat(x) == [n |-> x, d |-> 1]
RatVec(v) == [m \in Motors |-> Rat(v[m])]
RatEq(a, b) == a.n * b.d = b.n * a.d
RatLe(a, b) == a.n * b.d <= b.n * a.d
VecEq(u, v) == \A m \in Motors : RatEq(u[m], v[m])
ZeroVec == [m \in Motors |-> 0]


(***************************************************************************)
(* Observation history.  An observation is the motor-angle block           *)
(* [0:num_motors] of GetTrueObservation; the delayed query treats every    *)
(* component of the vector alike.                                          *)
(***************************************************************************)
\* ResetPose puts joint i at init + offset; GetTrueMotorAngles reads
\* (joint - offset) * direction.
ResetTrueAngles == [m \in Motors |-> InitMotorAngle[m] * MotorDirection[m]]

\* a deque filled with append instead of appendleft
AppendLeft_append(hist, obs) ==
  IF Len(hist) < HistoryCapacity THEN hist \o <<obs>>
  ELSE SubSeq(hist, 2, Len(hist)) \o <<obs>>

\* deque(maxlen).appendleft
AppendLeft(hist, obs) ==
  <<obs>> \o SubSeq(hist, 1, Min(Len(hist), HistoryCapacity - 1))

\* n_steps_ago = int(latency / time_step), for latency > 0
NStepsAgo(latency, T) == latency \div T

\* a saturation test that fires one entry early
Saturates_early(len, n) == n + 1 >= len - 1

\* n_steps_ago + 1 >= len(history)
Saturates(len, n) == n + 1 >= len

\* remaining_latency = latency - n_steps_ago * time_step
RemainingLatency(latency, n, T) == latency - n * T

\* a query that answers latency <= 0 from the wrong end of the history
DelayPlan_oldest(len, latency, T) ==
  IF latency <= 0 \/ len = 1
    THEN [lo |-> len, hi |-> len, rem |-> 0]
    ELSE LET n == NStepsAgo(latency, T) IN
         IF Saturates(len, n)
           THEN [lo |-> len, hi |-> len, rem |-> 0]
           ELSE [lo |-> n + 1, hi |-> n + 2,
                 rem |-> RemainingLatency(latency, n, T)]

\* a query that answers an underflow with the newest entry
DelayPlan_newest(len, latency, T) ==
  IF latency <= 0 \/ len = 1
    THEN [lo |-> 1, hi |-> 1, rem |-> 0]
    ELSE LET n == NStepsAgo(latency, T) IN
         IF Saturates(len, n)
           THEN [lo |-> 1, hi |-> 1, rem |-> 0]
           ELSE [lo |-> n + 1, hi |-> n + 2,
                 rem |-> RemainingLatency(latency, n, T)]

\* The entries _GetDelayedObservation reads (1-based: lo = python index + 1)
\* and the numerator of blend_alpha.
DelayPlan(len, latency, T) ==
  IF latency <= 0 \/ len = 1
    THEN [lo |-> 1, hi |-> 1, rem |-> 0]
    ELSE LET n == NStepsAgo(latency, T) IN
         IF Saturates(len, n)
           THEN [lo |-> len, hi |-> len, rem |-> 0]
           ELSE [lo |-> n + 1, hi |-> n + 2,
                 rem |-> RemainingLatency(latency, n, T)]

\* a blend with its two weights exchanged
Blend_swapped(a, b, rem, T) == [n |-> rem * a + (T - rem) * b, d |-> T]

\* (1 - blend_alpha) * entry[n] + blend_alpha * entry[n + 1],
\* blend_alpha = rem / T
Blend(a, b, rem, T) == [n |-> (T - rem) * a + rem * b, d |-> T]

GetDelayedObservation(hist, latency, T) ==
  LET p == DelayPlan(Len(hist), latency, T) IN
  IF p.lo = p.hi
    THEN RatVec(hist[p.lo])
    ELSE [m \in Motors |-> Blend(hist[p.lo][m], hist[p.hi][m], p.rem, T)]

(***************************************************************************)
(* Sensor readings.                                                        *)
(***************************************************************************)
\* _AddSensorNoise: a stdev <= 0 returns the values unperturbed.
AddSensorNoise(x, stdev) == IF stdev <= 0 THEN x ELSE x

\* math.fmod keeps the sign of the dividend.
Fmod(x, y) == IF x >= 0 THEN x % y ELSE -((-x) % y)

\* map to [-pi, pi)
MapToMinusPiToPi(r) ==
  LET f == Fmod(r.n, TWO_PI * r.d) IN
  IF f >= PI * r.d THEN [n |-> f - TWO_PI * r.d, d |-> r.d]
  ELSE IF f < -PI * r.d THEN [n |-> f + TWO_PI * r.d, d |-> r.d]
  ELSE [n |-> f, d |-> r.d]

\* GetMotorAngles: the control observation, noised and mapped
GetMotorAngles(ctrl) ==
  [m \in Motors |-> MapToMinusPiToPi(AddSensorNoise(ctrl[m], NoiseStdev))]

(***************************************************************************)
(* Action shaping.                                                         *)
(***************************************************************************)
\* a ProcessAction that starts from zero when no previous action exists
PrevAction_zero(fa, ctrl) == IF fa # None THEN RatVec(fa) ELSE RatVec(ZeroVec)

\* prev_action of ProcessAction
PrevAction(fa, ctrl) == IF fa # None THEN RatVec(fa) ELSE GetMotorAngles(ctrl)

\* a lerp of i / R in place of (i + 1) / R
Lerp_early(prev, act, i, R) ==
  [m \in Motors |->
     [n |-> prev[m].n * R + i * (act[m] * prev[m].d - prev[m].n),
      d |-> prev[m].d * R]]

\* prev + lerp * (action - prev), lerp = (i + 1) / R
Lerp(prev, act, i, R) ==
  [m \in Motors |->
     [n |-> prev[m].n * R + (i + 1) * (act[m] * prev[m].d - prev[m].n),
      d |-> prev[m].d * R]]

\* a previous action stored after every sub-step
StoreFilterAction_each(fa, act, i, R) == act

\* _filter_action after sub-step i: the target is stored once the last
\* sub-step of the control step has run
StoreFilterAction(fa, act, i, R) == IF i = R - 1 THEN act ELSE fa

ProcessAction(act, i, fa, ctrl, interp, R) ==
  IF interp THEN Lerp(PrevAction(fa, ctrl), act, i, R) ELSE RatVec(act)

RatAdd(r, k) == [n |-> r.n + k * r.d, d |-> r.d]

\* np.clip(x, lo, hi) = minimum(maximum(x, lo), hi)
RatClip(x, lo, hi) ==
  LET y == IF RatLe(x, lo) THEN lo ELSE x IN IF RatLe(hi, y) THEN hi ELSE y

\* a clamp whose upper bound is never applied
ClipMotorCommands_lower(cmd, ctrl) ==
  LET cur == GetMotorAngles(ctrl) IN
  [m \in Motors |->
     LET lo == RatAdd(cur[m], -MAX_MOTOR_ANGLE_CHANGE_PER_STEP) IN
     IF RatLe(cmd[m], lo) THEN lo ELSE cmd[m]]

ClipMotorCommands(cmd, ctrl) ==
  LET cur == GetMotorAngles(ctrl) IN
  [m \in Motors |->
     RatClip(cmd[m], RatAdd(cur[m], -MAX_MOTOR_ANGLE_CHANGE_PER_STEP),
             RatAdd(cur[m], MAX_MOTOR_ANGLE_CHANGE_PER_STEP))]

(***************************************************************************)
(* Overheat protection.                                                    *)
(***************************************************************************)
AboveThreshold(tau) == Abs(tau) > OVERHEAT_SHUTDOWN_TORQUE

\* a counter that keeps its value on a compliant step
NextOverheatCounter_sum(c, tau) == IF AboveThreshold(tau) THEN c + 1 ELSE c

NextOverheatCounter(c, tau) == IF AboveThreshold(tau) THEN c + 1 ELSE 0

\* a limit test with >= in place of >
OverTime_ge(c, T) == c * T >= OverheatShutdownTime

\* counter > OVERHEAT_SHUTDOWN_TIME / time_step
OverTime(c, T) == c * T > OverheatShutdownTime

OverheatCounterAfter(cnt, tau, prot) ==
  IF prot THEN [m \in Motors |-> NextOverheatCounter(cnt[m], tau[m])] ELSE cnt

\* a protection that switches a motor back on when its counter is low
MotorEnabledAfter_recover(en, cnt, tau, prot, T) ==
  IF prot
    THEN [m \in Motors |-> ~OverTime(NextOverheatCounter(cnt[m], tau[m]), T)]
    ELSE en

MotorEnabledAfter(en, cnt, tau, prot, T) ==
  IF prot
    THEN [m \in Motors |->
            IF OverTime(NextOverheatCounter(cnt[m], tau[m]), T)
              THEN FALSE ELSE en[m]]
    ELSE en

\* the torque list handed to _SetMotorTorqueByIds
AppliedTorques(tau, en) ==
  [m \in Motors |-> IF en[m] THEN tau[m] * MotorDirection[m] ELSE 0]

(***************************************************************************)
(* The action filter (action_filter.ActionFilterButter) is outside the     *)
(* modelled files: its output is drawn from env.policy and its history is  *)
(* tracked as "zeros" (after reset()), "seeded" (after init_history and    *)
(* the filter call that follows it) or "zeros_filtered" (a filter call ran *)
(* on the zero-filled history).                                            *)
(***************************************************************************)
\* a filter whose history is never initialised
FilterHistoryAfter_noseed(h, counter) ==
  IF h = "zeros" THEN "zeros_filtered" ELSE h

FilterHistoryAfter(h, counter) ==
  IF counter = 0 THEN "seeded"
  ELSE IF h = "zeros" THEN "zeros_filtered" ELSE h

\* the vector init_history receives: GetMotorAngles() when the counter is 0
FilterSeedAfter(seed, counter, ctrl) ==
  IF counter = 0 THEN GetMotorAngles(ctrl) ELSE seed

\* _ResetActionFilter, called when the filter is enabled
ResetActionFilter(h, enabled) == IF enabled THEN "zeros" ELSE h

\* reset() fills the filter's history with zeros
ResetFilterSeed(seed, enabled) == IF enabled THEN None ELSE seed

(***************************************************************************)
(* Sensors.  The sensor classes are outside the modelled files: a sensor   *)
(* is its name, and what its get_observation() returns is redrawn from     *)
(* env.readings by every on_reset() and on_step().                         *)
(***************************************************************************)
SensorNames == {"IMU", "LastAction", "MotorAngle"}

\* position of a name in the order sorted() gives strings
NameRank(n) == CASE n = "IMU" -> 1 [] n = "LastAction" -> 2 [] n = "MotorAngle" -> 3

Range(f) == {f[i] : i \in DOMAIN f}

\* sensors_dict after the loop of _get_observation
SensorsDict(sens, val) == [n \in Range(sens) |-> val[n]]

\* sorted(list(d.items())): the items in the order of their names
RECURSIVE SortedItems(_)
SortedItems(d) ==
  IF DOMAIN d = {} THEN << >>
  ELSE LET n == CHOOSE x \in DOMAIN d :
                  \A y \in DOMAIN d : NameRank(x) <= NameRank(y)
       IN  <<<<n, d[n]>>>> \o SortedItems([k \in DOMAIN d \ {n} |-> d[k]])

\* an observation that keeps the registration order
GetObservation_unsorted(sens, val) ==
  [i \in 1..Len(sens) |-> <<sens[i], val[sens[i]]>>]

\* _get_observation: OrderedDict(sorted(list(sensors_dict.items())))
GetObservation(sens, val) == SortedItems(SensorsDict(sens, val))

\* the calls "for s in sensors: s.<op>()" makes
OnAll(op, sens) == [i \in 1..Len(sens) |-> <<op, sens[i]>>]

\* the calls of a loop that drives only the first sensor
DriveLog_first(op, sens, composing) ==
  SubSeq(OnAll(op, sens), 1, 1) \o
    (IF composing THEN <<<<"compose", "">>>> ELSE << >>)

\* the loop over the sensors and, where the operation composes, the
\* _get_observation that follows it
DriveLog(op, sens, composing) ==
  OnAll(op, sens) \o (IF composing THEN <<<<"compose", "">>>> ELSE << >>)

DriveSensors(op, composing) ==
  /\ sensor_value' \in [Range(sensors) -> env.readings]
  /\ sensor_log' = DriveLog(op, sensors, composing)
  /\ observations' = IF composing THEN GetObservation(sensors, sensor_value')
                     ELSE observations
  /\ sensors' = sensors

\* the operation starts: no sensor has been called yet
NoSensorCall ==
  /\ sensor_log' = << >>
  /\ UNCHANGED <<sensors, sensor_value, observations>>

(***************************************************************************)
(* Randomizer (ControllableEnvRandomizerFromConfig).  A configuration is   *)
(* the sequence of the items of _randomization_param_dict in insertion     *)
(* order, each [name, range] with range = <<lo, hi>> or <<lo, hi, rl, rh>>.*)
(* A normalized sample is a whole number of sample units within            *)
(* param_bounds; "motor strength" samples one value per motor.  The        *)
(* robot's settings the randomizer writes are gathered in a record         *)
(* [latency, voltage, strength, dict, pos, log, draws, error] while a pass  *)
(* or a replay runs: dict is _randomization_param_value_dict, pos the      *)
(* position of the random stream, log the setter calls made, draws the     *)
(* number of calls of the random stream.  numpy's RandomState is outside   *)
(* the modelled files: a seeded stream is a fixed sequence of samples that *)
(* depends on the seed alone, an unseeded one yields any sample.           *)
(***************************************************************************)
\* param_bounds[0], param_bounds[1]
ParamBoundLo == -2
ParamBoundHi == 2

\* number of legs _randomize_leg_weakening chooses among
NUM_LEGS == 4

ParamNames == {"battery", "control step", "global motor strength", "latency",
               "leg weaken", "motor strength"}

\* position of a parameter name in the order sorted() gives strings
ParamRank(n) ==
  CASE n = "battery" -> 1
    [] n = "control step" -> 2
    [] n = "global motor strength" -> 3
    [] n = "latency" -> 4
    [] n = "leg weaken" -> 5
    [] n = "motor strength" -> 6

\* (sample - b0) / (b1 - b0) * (upper_bound - lower_bound) + lower_bound
Transform(sample, lo, hi) ==
  [n |-> (sample - ParamBoundLo) * (hi - lo) + lo * (ParamBoundHi - ParamBoundLo),
   d |-> ParamBoundHi - ParamBoundLo]

\* int(x): truncation toward zero
Trunc(r) == IF r.n >= 0 THEN r.n \div r.d ELSE -((-r.n) \div r.d)

\* d[name] = value on a Python dict
DictSet(d, name, value) ==
  [k \in DOMAIN d \cup {name} |-> IF k = name THEN value ELSE d[k]]

\* _randomization_param_dict.items(): the items in insertion order
InsertionOrder(cfg) == cfg

\* sorted(_randomization_param_dict.items()): the items sorted by name
RECURSIVE SortedParams(_)
SortedParams(cfg) ==
  IF cfg = << >> THEN << >>
  ELSE LET i == CHOOSE x \in DOMAIN cfg :
                  \A y \in DOMAIN cfg :
                    ParamRank(cfg[x].name) <= ParamRank(cfg[y].name)
       IN  <<cfg[i]>> \o
             SortedParams(SubSeq(cfg, 1, i - 1) \o SubSeq(cfg, i + 1, Len(cfg)))

\* a randomizer that stores the physical value of a scalar parameter
StoreSample_physical(dict, name, sample, lo, hi) ==
  DictSet(dict, name,
          IF name \in {"motor strength", "leg weaken"} THEN sample
          ELSE Trunc(Transform(sample, lo, hi)))

\* self._randomization_param_value_dict[name] = sample
StoreSample(dict, name, sample, lo, hi) == DictSet(dict, name, sample)

\* the strength ratios _randomize_leg_weakening hands over: ones, and the
\* ratio at the motors of the leg, motor_per_leg = int(num_motors / NUM_LEGS)
LegWeakenRatios(leg, ratio) ==
  LET motor_per_leg == NumMotors \div NUM_LEGS IN
  [m \in Motors |->
     IF leg * motor_per_leg <= m - 1 /\ m - 1 < (leg + 1) * motor_per_leg
       THEN ratio ELSE Rat(1)]

\* one _randomize_<parameter>(lower_bound, upper_bound, parameters): the
\* sample is stored, transformed and handed to the robot's setter.
\* robot.SetTimeSteps, which _randomize_control_step calls, is defined by
\* neither robot class: the call raises AttributeError.
RandomizeParam(R, name, range, sample, drawn) ==
  LET lo == range[1]
      hi == range[2]
      R1 == [R EXCEPT !.dict = StoreSample(R.dict, name, sample, lo, hi),
                      !.draws = R.draws + IF ~drawn THEN 0
                                          ELSE IF name = "leg weaken" THEN 2
                                          ELSE 1]
  IN  CASE name = "latency" ->
             LET v == Transform(sample, lo, hi) IN
             [R1 EXCEPT !.latency = v.n \div v.d,
                        !.log = Append(R1.log, <<"set_ctrl_latency", v>>)]
        [] name = "battery" ->
             LET v == Transform(sample, lo, hi) IN
             [R1 EXCEPT !.voltage = v,
                        !.log = Append(R1.log, <<"set_battery_voltage", v>>)]
        [] name = "global motor strength" ->
             LET v == [m \in Motors |-> Transform(sample, lo, hi)] IN
             [R1 EXCEPT !.strength = v,
                        !.log = Append(R1.log,
                                       <<"set_motor_strength_ratios", v>>)]
        [] name = "motor strength" ->
             LET v == [m \in Motors |-> Transform(sample[m], lo, hi)] IN
             [R1 EXCEPT !.strength = v,
                        !.log = Append(R1.log,
                                       <<"set_motor_strength_ratios", v>>)]
        [] name = "leg weaken" ->
             LET v == LegWeakenRatios(sample[1],
                                      Transform(sample[2], lo, hi)) IN
             [R1 EXCEPT !.strength = v,
                        !.log = Append(R1.log,
                                       <<"set_motor_strength_ratios", v>>)]
        [] name = "control step" ->
             LET v == Trunc(Transform(sample, lo, hi)) IN
             [R1 EXCEPT !.error = "AttributeError",
                        !.log = Append(R1.log, <<"SetTimeSteps", Rat(v)>>)]

\* the loop over the items: an exception ends it
RECURSIVE RandomizeAll(_, _, _, _)
RandomizeAll(R, items, batch, drawn) ==
  IF items = << >> \/ R.error # "none" THEN R
  ELSE IF items[1].name \notin DOMAIN batch
    THEN [R EXCEPT !.error = "KeyError"]
  ELSE RandomizeAll(RandomizeParam(R, items[1].name, items[1].range,
                                   batch[items[1].name], drawn),
                    Tail(items), batch, drawn)

\* _rejection_param_range after the first loop of randomize_env
RejectionParamRange(cfg) ==
  LET rej == {i \in DOMAIN cfg : Len(cfg[i].range) = 4} IN
  [n \in {cfg[i].name : i \in rej} |->
     LET i == CHOOSE j \in rej : cfg[j].name = n
     IN  <<cfg[i].range[3], cfg[i].range[4]>>]

\* the components of the sample of a parameter
Components(name, sample) ==
  IF name = "motor strength" THEN {sample[m] : m \in Motors} ELSE {sample}

\* a loop test that is true as soon as one parameter lies in its range
CheckAllInRejectionRange_any(dict, rej) ==
  \E n \in DOMAIN rej :
    \A c \in Components(n, dict[n]) : rej[n][1] <= c /\ c <= rej[n][2]

\* _check_all_randomization_parameter_in_rejection_range: False as soon as
\* a component of a stored sample lies outside the parameter's range
CheckAllInRejectionRange(dict, rej) ==
  \A n \in DOMAIN rej :
    \A c \in Components(n, dict[n]) : rej[n][1] <= c /\ c <= rej[n][2]

\* the settings a randomizer call starts from
Settings(log, draws) ==
  [latency |-> control_latency, voltage |-> battery_voltage,
   strength |-> motor_strength_ratios,
   dict |-> randomization_param_value_dict, pos |-> np_random,
   log |-> log, draws |-> draws, error |-> "none"]

\* the settings a randomizer call leaves
Commit(R) ==
  /\ control_latency' = R.latency
  /\ battery_voltage' = R.voltage
  /\ motor_strength_ratios' = R.strength
  /\ randomization_param_value_dict' = R.dict
  /\ np_random' = R.pos
  /\ setter_log' = R.log
  /\ rand_draws' = R.draws
  /\ rand_error' = R.error

\* the samples one pass over the parameters draws
Batches ==
  LET names == {randomization_param_dict[i].name :
                  i \in DOMAIN randomization_param_dict}
      scalars == names \ {"motor strength", "leg weaken"}
  IN  {[n \in names |-> IF n = "motor strength" THEN vb
                         ELSE IF n = "leg weaken" THEN lw ELSE sb[n]] :
         sb \in [scalars -> env.samples],
         vb \in IF "motor strength" \in names THEN [Motors -> env.samples]
                ELSE {ZeroVec},
         lw \in IF "leg weaken" \in names
                  THEN (0 .. (NUM_LEGS - 1)) \X env.samples
                ELSE {<<0, 0>>}}

\* randomization_seed=None; a seed is a natural number
NoSeed == -1

\* length of the cycle of a seeded stream
StreamPeriod == ParamBoundHi - ParamBoundLo + 1

\* the k-th sample of the stream of a seed
Stream(seed, k) == ParamBoundLo + ((seed + k * (seed + 1)) % StreamPeriod)

\* calls of uniform and randint one _randomize_<parameter> makes, counted in
\* samples
DrawCount(name) ==
  IF name = "motor strength" THEN NumMotors
  ELSE IF name = "leg weaken" THEN 2 ELSE 1

\* the samples a seeded stream at position pos gives to the items in turn
RECURSIVE SeededBatch(_, _, _)
SeededBatch(items, seed, pos) ==
  IF items = << >> THEN << >>
  ELSE LET name == items[1].name
           sample ==
             IF name = "motor strength"
               THEN [m \in Motors |-> Stream(seed, pos + m - 1)]
             ELSE IF name = "leg weaken"
               THEN <<(Stream(seed, pos) - ParamBoundLo) % NUM_LEGS,
                      Stream(seed, pos + 1)>>
             ELSE Stream(seed, pos)
       IN  DictSet(SeededBatch(Tail(items), seed, pos + DrawCount(name)),
                   name, sample)

RECURSIVE PassDraws(_)
PassDraws(items) ==
  IF items = << >> THEN 0
  ELSE DrawCount(items[1].name) + PassDraws(Tail(items))

\* a randomize_env that leaves the stream where the last call left it
Reseed_kept(pos) == pos

\* self._np_random.seed(self._randomization_seed) when a seed is set
Reseed(pos) == IF randomization_seed = NoSeed THEN pos ELSE 0

\* one pass of randomize_env over the sorted items, then the test of the
\* while loop
RandomizePass(R0) ==
  \E batch \in IF randomization_seed = NoSeed THEN Batches
                ELSE {SeededBatch(SortedParams(randomization_param_dict),
                                  randomization_seed, R0.pos)} :
    LET items == SortedParams(randomization_param_dict)
        R1 == RandomizeAll(
                [R0 EXCEPT !.pos = IF randomization_seed = NoSeed THEN R0.pos
                                   ELSE (R0.pos + PassDraws(items))
                                          % StreamPeriod],
                items, batch, TRUE)
        rej == RejectionParamRange(randomization_param_dict)
    IN  /\ Commit(R1)
        /\ pc' = IF R1.error = "none" /\ DOMAIN rej # {}
                    /\ CheckAllInRejectionRange(R1.dict, rej)
                   THEN "resample" ELSE "idle"

\* a replay that draws its samples afresh
SetEnvFromRandomizationParameters_redraw(R0, params) ==
  RandomizeAll([R0 EXCEPT !.dict = params],
               InsertionOrder(randomization_param_dict),
               [n \in DOMAIN params |->
                  IF n = "motor strength" THEN [m \in Motors |-> ParamBoundLo]
                  ELSE IF n = "leg weaken" THEN <<0, ParamBoundLo>>
                  ELSE ParamBoundLo],
               TRUE)

\* set_env_from_randomization_parameters(params, robot)
SetEnvFromRandomizationParameters(R0, params) ==
  RandomizeAll([R0 EXCEPT !.dict = params],
               InsertionOrder(randomization_param_dict), params, FALSE)

\* randomize_env(robot) up to the test of its while loop
RandomizeEnv ==
  IF ~suspend_randomization
    THEN RandomizePass([Settings(<< >>, 0) EXCEPT !.pos = Reseed(np_random)])
  ELSE IF randomization_param_value_dict # << >>
    THEN /\ Commit(SetEnvFromRandomizationParameters(
                     Settings(<< >>, 0), randomization_param_value_dict))
         /\ pc' = "idle"
  ELSE /\ Commit(Settings(<< >>, 0))
       /\ pc' = "idle"

(***************************************************************************)
(* Link dynamics.  The simulator keeps a mass and an inertia diagonal for  *)
(* every link; the setters below are the same in both robot classes       *)
(* (set_base_mass / SetBaseMasses and so on).  A raised exception is a     *)
(* record: its type and what its message names.                            *)
(***************************************************************************)
ChassisLinks == 1 .. NumChassisLinks
LegAndMotorLinks == 1 .. (NumLegLinks + NumMotorLinks)

\* the masses and inertias the URDF gives the links
UrdfDynamics ==
  [base_mass |-> [i \in ChassisLinks |-> 1],
   leg_mass |-> [i \in LegAndMotorLinks |-> 1],
   base_inertia |-> [i \in ChassisLinks |-> <<1, 1>>],
   leg_inertia |-> [i \in LegAndMotorLinks |-> <<1, 1>>]]

NoError == [type |-> "none"]

\* ValueError whose message formats both lengths
LengthError(what, got, expected) ==
  [type |-> "ValueError", what |-> what, got |-> got, expected |-> expected]

\* ValueError "The number of values passed to ... are different than number
\* of leg links and motors."
LegCountError == [type |-> "ValueError", what |-> "leg links and motors"]

\* ValueError "Values in inertia matrix should be non-negative."
NegativeError == [type |-> "ValueError", what |-> "negative inertia"]

NoCall == [arg |-> << >>, raised |-> NoError]

Outcome(dyn, err) == [dynamics |-> dyn, raised |-> err]

\* (np.asarray(inertia_value) < 0).any() for some value of one inertia
HasNegative(inertia) == \E k \in DOMAIN inertia : inertia[k] < 0

\* a setter that writes the links it can pair before it tests the length
SetBaseMasses_late(dyn, base_mass) ==
  LET written == [i \in ChassisLinks |->
                    IF i <= Len(base_mass) THEN base_mass[i]
                    ELSE dyn.base_mass[i]]
  IN  IF Len(base_mass) # NumChassisLinks
        THEN Outcome([dyn EXCEPT !.base_mass = written],
                     LengthError("base_mass", Len(base_mass), NumChassisLinks))
        ELSE Outcome([dyn EXCEPT !.base_mass = base_mass], NoError)

\* set_base_mass / SetBaseMasses: the length test, then one changeDynamics
\* per chassis link
SetBaseMasses(dyn, base_mass) ==
  IF Len(base_mass) # NumChassisLinks
    THEN Outcome(dyn, LengthError("base_mass", Len(base_mass), NumChassisLinks))
    ELSE Outcome([dyn EXCEPT !.base_mass = base_mass], NoError)

\* set_leg_mass / SetLegMasses: the length test, then one changeDynamics per
\* leg link and per motor link
SetLegMasses(dyn, leg_masses) ==
  IF Len(leg_masses) # NumLegLinks + NumMotorLinks
    THEN Outcome(dyn, LegCountError)
    ELSE Outcome([dyn EXCEPT !.leg_mass = leg_masses], NoError)

\* the loop of set_base_inertia from chassis link i on: the values of link i
\* are tested, then link i is written, then the next link is taken
RECURSIVE ChassisInertiaLoop(_, _, _)
ChassisInertiaLoop(dyn, base_inertias, i) ==
  IF i > NumChassisLinks THEN Outcome(dyn, NoError)
  ELSE IF HasNegative(base_inertias[i]) THEN Outcome(dyn, NegativeError)
  ELSE ChassisInertiaLoop([dyn EXCEPT !.base_inertia[i] = base_inertias[i]],
                          base_inertias, i + 1)

\* set_base_inertia / SetBaseInertias
SetBaseInertias(dyn, base_inertias) ==
  IF Len(base_inertias) # NumChassisLinks
    THEN Outcome(dyn, LengthError("base_inertias", Len(base_inertias),
                                  NumChassisLinks))
    ELSE ChassisInertiaLoop(dyn, base_inertias, 1)

\* the second loop of set_leg_inertia from motor link j on: every turn tests
\* the whole of motor_inertias, then writes motor link j
RECURSIVE MotorInertiaLoop(_, _, _)
MotorInertiaLoop(dyn, leg_inertias, j) ==
  IF j > NumMotorLinks THEN Outcome(dyn, NoError)
  ELSE IF \E k \in (NumLegLinks + 1) .. Len(leg_inertias) :
            HasNegative(leg_inertias[k])
    THEN Outcome(dyn, NegativeError)
  ELSE MotorInertiaLoop(
         [dyn EXCEPT !.leg_inertia[NumLegLinks + j] =
                        leg_inertias[NumLegLinks + j]],
         leg_inertias, j + 1)

\* the first loop of set_leg_inertia from leg link i on: every turn tests
\* the whole of leg_inertias, then writes leg link i
RECURSIVE LegInertiaLoop(_, _, _)
LegInertiaLoop(dyn, leg_inertias, i) ==
  IF i > NumLegLinks THEN MotorInertiaLoop(dyn, leg_inertias, 1)
  ELSE IF \E k \in DOMAIN leg_inertias : HasNegative(leg_inertias[k])
    THEN Outcome(dyn, NegativeError)
  ELSE LegInertiaLoop([dyn EXCEPT !.leg_inertia[i] = leg_inertias[i]],
                      leg_inertias, i + 1)

\* set_leg_inertia / SetLegInertias
SetLegInertias(dyn, leg_inertias) ==
  IF Len(leg_inertias) # NumLegLinks + NumMotorLinks
    THEN Outcome(dyn, LegCountError)
    ELSE LegInertiaLoop(dyn, leg_inertias, 1)

(***************************************************************************)
(* Parts of operations.                                                    *)
(***************************************************************************)
\* an apply_action that sends the torques before the overheat test
ApplyAction_unchecked(cmd, tau) ==
  /\ motor_commands' = ClipMotorCommands(cmd, control_observation)
  /\ actual_torque' = tau
  /\ overheat_counter' =
       OverheatCounterAfter(overheat_counter, tau, motor_overheat_protection)
  /\ motor_enabled_list' =
       MotorEnabledAfter(motor_enabled_list, overheat_counter, tau,
                         motor_overheat_protection, time_step)
  /\ motor_torques' = AppliedTorques(tau, motor_enabled_list)
  /\ hot_steps' = [m \in Motors |->
                     hot_steps[m] + IF AboveThreshold(tau[m]) THEN 1 ELSE 0]

\* ApplyAction / apply_action with the motor model's output tau
ApplyAction(cmd, tau) ==
  /\ motor_commands' = ClipMotorCommands(cmd, control_observation)
  /\ actual_torque' = tau
  /\ overheat_counter' =
       OverheatCounterAfter(overheat_counter, tau, motor_overheat_protection)
  /\ motor_enabled_list' =
       MotorEnabledAfter(motor_enabled_list, overheat_counter, tau,
                         motor_overheat_protection, time_step)
  /\ motor_torques' = AppliedTorques(tau, motor_enabled_list')
  /\ hot_steps' = [m \in Motors |->
                     hot_steps[m] + IF AboveThreshold(tau[m]) THEN 1 ELSE 0]

\* ReceiveObservation / receive_obs reading the joint angles js
ReceiveObservation(hist, js) ==
  /\ joint_states' = js
  /\ observation_history' = AppendLeft(hist, js)
  /\ control_observation' =
       GetDelayedObservation(observation_history', control_latency, time_step)

\* a reset that keeps the overheat counters and the enabled flags
ResetState_keep ==
  /\ UNCHANGED <<overheat_counter, motor_enabled_list>>
  /\ step_counter' = 0
  /\ state_action_counter' = 0
  /\ filter_action' = None
  /\ hot_steps' = ZeroVec
  /\ prev_target' = None

\* the state every reset installs before it records an observation
ResetState ==
  /\ overheat_counter' = ZeroVec
  /\ motor_enabled_list' = [m \in Motors |-> TRUE]
  /\ step_counter' = 0
  /\ state_action_counter' = 0
  /\ filter_action' = None
  /\ hot_steps' = ZeroVec
  /\ prev_target' = None

\* arguments callers pass to reset_robot
ResetTimes == {0, 2}
DefaultMotorAngles == {None, [m \in Motors |-> 1]}

(***************************************************************************)
(* Quadruped.                                                              *)
(***************************************************************************)
\* reset_robot up to the first _StepInternal of _SettleDownForReset, or to
\* its return when no step runs
reset_robot(default_motor_angles, reset_time) ==
  /\ robot = "Quadruped"
  /\ setter_call' = NoCall
  /\ episode' = [reset |-> "reset_robot", randomize_env |-> 0]
  /\ pc \in {"new", "idle"}
  /\ ResetState
  /\ ReceiveObservation(<< >>, ResetTrueAngles)
  /\ LET a == IF reset_time <= 0 THEN 0 ELSE SettleSteps
         b == IF reset_time <= 0 \/ default_motor_angles = None
                THEN 0 ELSE reset_time \div time_step
     IN  /\ settle_left' = [init |-> a, dflt |-> b,
                            angles |-> default_motor_angles]
         /\ IF a + b = 0
              THEN /\ pc' = "idle"
                   /\ filter_history' =
                        ResetActionFilter(filter_history, enable_action_filter)
                   /\ filter_seed' =
                        ResetFilterSeed(filter_seed, enable_action_filter)
                   /\ DriveSensors("on_reset", TRUE)
              ELSE /\ pc' = "settle"
                   /\ filter_history' = filter_history
                   /\ filter_seed' = filter_seed
                   /\ NoSensorCall
  /\ last_op' = "reset_robot"
  /\ dynamics' = UrdfDynamics
  /\ UNCHANGED <<cfgvars, randvars, substep, actual_torque, motor_commands,
                 motor_torques, action, prev_action, proc_action>>

\* one _StepInternal: ApplyAction, stepSimulation, ReceiveObservation
StepInternal(cmd, tau, js) ==
  /\ ApplyAction(cmd, tau)
  /\ ReceiveObservation(observation_history, js)
  /\ state_action_counter' = state_action_counter + 1

\* one iteration of the loops of _SettleDownForReset; the last one runs
\* reset_robot to its return
SettleDownForReset ==
  /\ robot = "Quadruped"
  /\ UNCHANGED <<setter_call, episode>>
  /\ pc = "settle"
  /\ \E tau \in env.motor, js \in env.sim :
       StepInternal(RatVec(IF settle_left.init > 0 THEN InitMotorAngle
                           ELSE settle_left.angles), tau, js)
  /\ LET a == IF settle_left.init > 0 THEN settle_left.init - 1 ELSE 0
         b == IF settle_left.init > 0 THEN settle_left.dflt
              ELSE settle_left.dflt - 1
     IN  /\ settle_left' = [settle_left EXCEPT !.init = a, !.dflt = b]
         /\ IF a + b = 0
              THEN /\ pc' = "idle"
                   /\ filter_history' =
                        ResetActionFilter(filter_history, enable_action_filter)
                   /\ filter_seed' =
                        ResetFilterSeed(filter_seed, enable_action_filter)
                   /\ DriveSensors("on_reset", TRUE)
                   /\ last_op' = "reset_robot"
              ELSE /\ pc' = "settle"
                   /\ filter_history' = filter_history
                   /\ filter_seed' = filter_seed
                   /\ UNCHANGED sensvars
                   /\ last_op' = "_StepInternal"
  /\ UNCHANGED <<cfgvars, dynamics, randvars, substep, action, filter_action, prev_action,
                 proc_action, step_counter, prev_target>>

\* set_action up to its loop: the offset and the filter
set_action(a, filtered) ==
  /\ robot = "Quadruped"
  /\ setter_call' = NoCall
  /\ UNCHANGED episode
  /\ pc = "idle"
  /\ step_counter < MaxControlSteps * action_repeat
  /\ IF enable_action_filter
       THEN /\ action' = filtered
            /\ filter_history' = FilterHistoryAfter(filter_history, step_counter)
            /\ filter_seed' = FilterSeedAfter(filter_seed, step_counter,
                                              control_observation)
       ELSE /\ action' = [m \in Motors |-> a[m] + InitMotorAngle[m]]
            /\ filter_history' = filter_history
            /\ filter_seed' = filter_seed
  /\ prev_target' = IF step_counter = 0 THEN None ELSE action
  /\ pc' = "substep"
  /\ substep' = 0
  /\ last_op' = "set_action"
  /\ NoSensorCall
  /\ UNCHANGED <<cfgvars, dynamics, randvars, settle_left, joint_states, observation_history,
                 control_observation, overheat_counter, motor_enabled_list,
                 actual_torque, motor_commands, motor_torques, hot_steps,
                 filter_action,
                 prev_action, proc_action, step_counter, state_action_counter>>

\* iteration i of the loop of set_action; the last one runs set_action to
\* its return
SetActionStep ==
  /\ robot = "Quadruped"
  /\ UNCHANGED <<setter_call, episode>>
  /\ pc = "substep"
  /\ prev_action' = IF enable_action_interpolation
                      THEN PrevAction(filter_action, control_observation)
                      ELSE prev_action
  /\ proc_action' = ProcessAction(action, substep, filter_action,
                                  control_observation,
                                  enable_action_interpolation, action_repeat)
  /\ \E tau \in env.motor, js \in env.sim : StepInternal(proc_action', tau, js)
  /\ step_counter' = step_counter + 1
  /\ IF substep = action_repeat - 1
       THEN /\ DriveSensors("on_step", TRUE)
            /\ pc' = "idle"
            /\ substep' = 0
       ELSE /\ UNCHANGED sensvars
            /\ pc' = "substep"
            /\ substep' = substep + 1
  /\ filter_action' = StoreFilterAction(filter_action, action, substep,
                                        action_repeat)
  /\ last_op' = "_StepInternal"
  /\ UNCHANGED <<cfgvars, dynamics, randvars, settle_left, action, filter_history, filter_seed,
                 prev_target>>

(***************************************************************************)
(* Minitaur.  The environment that drives it calls set_act, then for each  *)
(* i in range(action_repeat) robot_step(i), the physics step and           *)
(* receive_obs.                                                            *)
(***************************************************************************)
\* a robot whose init_robot loops over the randomizers as its reset does
RunsRandomizers_always(name) == enable_randomizer

\* the loop over all env randomizers: the last statement of reset, absent
\* from init_robot; one randomizer is registered
RunsRandomizers(name) == name = "reset" /\ enable_randomizer

\* init_robot (sensors = FALSE) and reset (sensors = TRUE)
MinitaurReset(name) ==
  /\ robot = "Minitaur"
  /\ setter_call' = NoCall
  /\ episode' = [reset |-> name,
                  randomize_env |-> IF RunsRandomizers(name) THEN 1 ELSE 0]
  /\ ResetState
  /\ ReceiveObservation(<< >>, ResetTrueAngles)
  /\ filter_history' = ResetActionFilter(filter_history, enable_action_filter)
  /\ filter_seed' = ResetFilterSeed(filter_seed, enable_action_filter)
  /\ last_op' = name
  /\ IF name = "reset" THEN DriveSensors("on_reset", FALSE)
     ELSE UNCHANGED sensvars
  /\ IF RunsRandomizers(name)
       THEN /\ RandomizeEnv
            /\ UNCHANGED <<randomization_param_dict, enable_randomizer,
                           suspend_randomization>>
       ELSE /\ pc' = "idle"
            /\ UNCHANGED <<control_latency, randvars>>
  /\ dynamics' = IF name = "init_robot" THEN UrdfDynamics ELSE dynamics
  /\ UNCHANGED <<fixedvars, substep, settle_left, actual_torque,
                 motor_commands, motor_torques, action, prev_action,
                 proc_action>>

init_robot == pc = "new" /\ MinitaurReset("init_robot")

reset == pc = "idle" /\ MinitaurReset("reset")

set_act(a, filtered) ==
  /\ robot = "Minitaur"
  /\ setter_call' = NoCall
  /\ UNCHANGED episode
  /\ pc = "idle"
  /\ step_counter < MaxControlSteps
  /\ IF enable_action_filter
       THEN /\ action' = filtered
            /\ filter_history' =
                 FilterHistoryAfter(filter_history, state_action_counter)
            /\ filter_seed' = FilterSeedAfter(filter_seed, state_action_counter,
                                              control_observation)
       ELSE UNCHANGED <<action, filter_history, filter_seed>>
  /\ prev_target' = IF step_counter = 0 THEN None ELSE action
  /\ pc' = "substep"
  /\ substep' = 0
  /\ last_op' = "set_act"
  /\ NoSensorCall
  /\ UNCHANGED <<cfgvars, dynamics, randvars, settle_left, joint_states, observation_history,
                 control_observation, overheat_counter, motor_enabled_list,
                 actual_torque, motor_commands, motor_torques, hot_steps,
                 filter_action,
                 prev_action, proc_action, step_counter, state_action_counter>>

robot_step ==
  /\ robot = "Minitaur"
  /\ UNCHANGED <<setter_call, episode>>
  /\ pc = "substep"
  /\ prev_action' = IF enable_action_interpolation
                      THEN PrevAction(filter_action, control_observation)
                      ELSE prev_action
  /\ proc_action' = ProcessAction(action, substep, filter_action,
                                  control_observation,
                                  enable_action_interpolation, action_repeat)
  /\ \E tau \in env.motor : ApplyAction(proc_action', tau)
  /\ state_action_counter' = state_action_counter + 1
  /\ IF substep = action_repeat - 1
       THEN step_counter' = step_counter + 1
       ELSE UNCHANGED step_counter
  /\ filter_action' = StoreFilterAction(filter_action, action, substep,
                                        action_repeat)
  /\ pc' = "sense"
  /\ last_op' = "robot_step"
  /\ UNCHANGED <<cfgvars, dynamics, randvars, sensvars, substep, settle_left,
                 joint_states,
                 observation_history, control_observation, action,
                 filter_history, filter_seed, prev_target>>

receive_obs ==
  /\ robot = "Minitaur"
  /\ UNCHANGED <<setter_call, episode>>
  /\ pc = "sense"
  /\ \E js \in env.sim : ReceiveObservation(observation_history, js)
  /\ IF substep = action_repeat - 1
       THEN pc' = "observe" /\ substep' = 0
       ELSE pc' = "substep" /\ substep' = substep + 1
  /\ last_op' = "receive_obs"
  /\ UNCHANGED <<cfgvars, dynamics, randvars, sensvars, settle_left, overheat_counter,
                 motor_enabled_list,
                 actual_torque, motor_commands, motor_torques, hot_steps,
                 prev_target, action,
                 filter_action, prev_action, proc_action, filter_history,
                 filter_seed, step_counter, state_action_counter>>

\* get_obs, which the environment calls when the sub-steps are done
get_obs ==
  /\ robot = "Minitaur"
  /\ UNCHANGED <<setter_call, episode>>
  /\ pc = "observe"
  /\ DriveSensors("on_step", TRUE)
  /\ pc' = "idle"
  /\ last_op' = "get_obs"
  /\ UNCHANGED <<cfgvars, dynamics, randvars, substep, settle_left, joint_states,
                 observation_history, control_observation, overheat_counter,
                 motor_enabled_list, actual_torque, motor_commands,
                 motor_torques, hot_steps, prev_target, action, filter_action,
                 prev_action, proc_action, filter_history, filter_seed,
                 step_counter, state_action_counter>>

\* the robot state a call on the randomizer leaves alone
robotvars == <<substep, settle_left, joint_states, observation_history,
               control_observation, overheat_counter, motor_enabled_list,
               actual_torque, motor_commands, motor_torques, hot_steps,
               prev_target, action, filter_action, prev_action, proc_action,
               filter_history, filter_seed, step_counter,
               state_action_counter>>

\* one more turn of the while loop of randomize_env: every parameter is
\* drawn and applied again, then the loop test runs again; the loop counts
\* no turns
resample ==
  /\ robot = "Minitaur"
  /\ UNCHANGED <<setter_call, episode>>
  /\ pc = "resample"
  /\ RandomizePass(Settings(<< >>, 0))
  /\ last_op' = "randomize_env"
  /\ UNCHANGED <<fixedvars, dynamics, robotvars, sensvars, randomization_param_dict,
                 enable_randomizer, suspend_randomization>>

\* the suspend_randomization setter, called by the owner between episodes
set_suspend_randomization(suspend_rand) ==
  /\ robot = "Minitaur"
  /\ setter_call' = NoCall
  /\ UNCHANGED episode
  /\ pc = "idle"
  /\ suspend_randomization' = suspend_rand
  /\ last_op' = "suspend_randomization"
  /\ UNCHANGED <<cfgvars, dynamics, pc, robotvars, sensvars, randomization_param_dict,
                 enable_randomizer, randomization_param_value_dict,
                 battery_voltage, motor_strength_ratios, np_random,
                 setter_log, rand_draws, rand_error>>

\* set_env_from_randomization_parameters called by the owner with the
\* sample get_randomization_parameters() returned
set_env_from_randomization_parameters ==
  /\ robot = "Minitaur"
  /\ setter_call' = NoCall
  /\ UNCHANGED episode
  /\ pc = "idle"
  /\ randomization_param_value_dict # << >>
  /\ Commit(SetEnvFromRandomizationParameters(
              Settings(<< >>, 0), randomization_param_value_dict))
  /\ last_op' = "set_env_from_randomization_parameters"
  /\ UNCHANGED <<fixedvars, dynamics, pc, robotvars, sensvars, randomization_param_dict,
                 enable_randomizer, suspend_randomization>>

\* the state a dynamics setter leaves alone
loopvars == <<cfgvars, randvars, sensvars, robotvars, pc>>

\* a dynamics setter called by the owner between operations: the outcome is
\* written to the simulator and the exception, if any, reaches the owner
SetterCall(name, arg, out) ==
  /\ pc = "idle"
  /\ dynamics' = out.dynamics
  /\ setter_call' = [arg |-> arg, raised |-> out.raised]
  /\ UNCHANGED episode
  /\ last_op' = name
  /\ UNCHANGED loopvars

set_base_mass(base_mass) ==
  SetterCall("set_base_mass", base_mass, SetBaseMasses(dynamics, base_mass))

set_leg_mass(leg_masses) ==
  SetterCall("set_leg_mass", leg_masses, SetLegMasses(dynamics, leg_masses))

set_base_inertia(base_inertias) ==
  SetterCall("set_base_inertia", base_inertias,
             SetBaseInertias(dynamics, base_inertias))

set_leg_inertia(leg_inertias) ==
  SetterCall("set_leg_inertia", leg_inertias,
             SetLegInertias(dynamics, leg_inertias))

(***************************************************************************)
(* Specifications.                                                         *)
(***************************************************************************)
\* the state after construction, for a configuration and collaborator ranges
InitWith(robots, steps, repeats, latencies, prot, interp, filt, e) ==
  /\ robot \in robots
  /\ time_step \in steps
  /\ action_repeat \in repeats
  /\ control_latency \in latencies
  /\ motor_overheat_protection \in prot
  /\ enable_action_interpolation \in interp
  /\ enable_action_filter \in filt
  /\ env = e
  /\ pc = "new"
  /\ substep = 0
  /\ settle_left = [init |-> 0, dflt |-> 0, angles |-> None]
  /\ joint_states = ResetTrueAngles
  /\ observation_history =
       IF robot = "Quadruped" THEN <<ResetTrueAngles>> ELSE << >>
  /\ control_observation = RatVec(ResetTrueAngles)
  /\ overheat_counter = ZeroVec
  /\ motor_enabled_list = [m \in Motors |-> TRUE]
  /\ actual_torque = ZeroVec
  /\ motor_commands = RatVec(ZeroVec)
  /\ motor_torques = ZeroVec
  /\ hot_steps = ZeroVec
  /\ prev_target = None
  /\ action = ZeroVec
  /\ filter_action = None
  /\ prev_action = None
  /\ proc_action = None
  /\ filter_history = "zeros"
  /\ filter_seed = None
  /\ step_counter = 0
  /\ state_action_counter = 0
  /\ last_op = "__init__"
  /\ sensor_log = << >>
  /\ observations = None
  /\ dynamics = UrdfDynamics
  /\ setter_call = NoCall
  /\ episode = [reset |-> "__init__", randomize_env |-> 0]

\* the randomizer after construction, for one of the given configurations
InitRandomizerWith(configs, enabled, seeds) ==
  /\ randomization_seed \in seeds
  /\ np_random = 0
  /\ randomization_param_dict \in configs
  /\ enable_randomizer \in enabled
  /\ suspend_randomization = FALSE
  /\ randomization_param_value_dict = << >>
  /\ battery_voltage = Rat(0)
  /\ motor_strength_ratios = RatVec([m \in Motors |-> 1])
  /\ setter_log = << >>
  /\ rand_draws = 0
  /\ rand_error = "none"

\* the randomizer constructed without a seed
InitRandomizer(configs, enabled) ==
  InitRandomizerWith(configs, enabled, {NoSeed})

\* the sensors handed to the constructor, in one of the given orders
InitSensors(orders) ==
  /\ sensors \in orders
  /\ sensor_value = [n \in Range(sensors) |-> 0]

Robots == {"Quadruped", "Minitaur"}

Vec(x, y) == [m \in Motors |-> IF m = 1 THEN x ELSE y]

\* setter arguments of the wrong length only
EmptyLists == [base_mass |-> {<< >>}, leg_mass |-> {<< >>},
               base_inertia |-> {<< >>}, leg_inertia |-> {<< >>}]

Next ==
  \/ \E d \in DefaultMotorAngles, t \in ResetTimes : reset_robot(d, t)
  \/ SettleDownForReset
  \/ \E a \in env.policy, f \in env.policy : set_action(a, f)
  \/ SetActionStep
  \/ init_robot
  \/ reset
  \/ \E a \in env.policy, f \in env.policy : set_act(a, f)
  \/ robot_step
  \/ receive_obs
  \/ get_obs
  \/ resample
  \/ \E b \in env.suspend : set_suspend_randomization(b)
  \/ set_env_from_randomization_parameters
  \/ \E x \in env.dyn.base_mass : set_base_mass(x)
  \/ \E x \in env.dyn.leg_mass : set_leg_mass(x)
  \/ \E x \in env.dyn.base_inertia : set_base_inertia(x)
  \/ \E x \in env.dyn.leg_inertia : set_leg_inertia(x)

\* observation buffering: the simulator moves the joints
EnvObs == [sim |-> {Vec(0, 0), Vec(2, -1), Vec(5, 3)},
           motor |-> {ZeroVec},
           policy |-> {Vec(1, 1)},
           readings |-> {0},
           samples |-> {0, 1},
           suspend |-> {FALSE},
           dyn |-> EmptyLists]

\* the randomizer of the specifications that are not about it: one
\* parameter with a rejection range
BatteryOnly == {<<[name |-> "battery", range |-> <<0, 4, 1, 2>>]>>}

\* the sensors of the specifications that are not about sensors
TwoSensors == {<<"MotorAngle", "IMU">>}

InitObs ==
  /\ InitWith(Robots, {2, 3}, {2}, {0, 3}, {FALSE}, {TRUE}, {TRUE}, EnvObs)
  /\ InitSensors(TwoSensors)
  /\ InitRandomizer(BatteryOnly, {TRUE})

SpecObs == InitObs /\ [][Next]_vars

\* overheat protection: the motor model's torques vary
EnvHeat == [sim |-> {ResetTrueAngles},
            motor |-> {Vec(300, 300), Vec(-300, 0), Vec(245, -300),
                       Vec(0, 246)},
            policy |-> {Vec(1, 1)},
            readings |-> {0},
            samples |-> {0, 1},
            suspend |-> {FALSE},
            dyn |-> EmptyLists]

InitHeat ==
  /\ InitWith(Robots, {1, 2}, {2}, {0}, {TRUE}, {TRUE}, {TRUE}, EnvHeat)
  /\ InitSensors(TwoSensors)
  /\ InitRandomizer(BatteryOnly, {TRUE})

SpecHeat == InitHeat /\ [][Next]_vars

\* action shaping: the policy's actions and the joints vary
EnvAct == [sim |-> {Vec(4, 0), Vec(9, -2)},
           motor |-> {ZeroVec},
           policy |-> {Vec(1, 1), Vec(-3, 5)},
           readings |-> {0},
           samples |-> {0, 1},
           suspend |-> {FALSE},
           dyn |-> EmptyLists]

InitAct ==
  /\ InitWith(Robots, {2}, {2, 3}, {0, 3}, {FALSE}, BOOLEAN, BOOLEAN, EnvAct)
  /\ InitSensors(TwoSensors)
  /\ InitRandomizer(BatteryOnly, {TRUE})

SpecAct == InitAct /\ [][Next]_vars

\* sensor composition: the registration order and the readings vary
EnvSens == [sim |-> {ResetTrueAngles},
            motor |-> {ZeroVec},
            policy |-> {Vec(1, 1)},
            readings |-> {1, 2},
            samples |-> {0, 1},
            suspend |-> {FALSE},
            dyn |-> EmptyLists]

\* every order of every non-empty set of distinctly named sensors
SensorOrders ==
  {q \in UNION {[1..k -> SensorNames] : k \in 1..Cardinality(SensorNames)} :
     \A i, j \in DOMAIN q : i # j => q[i] # q[j]}

InitSens ==
  /\ InitWith(Robots, {2}, {2}, {0}, {FALSE}, {TRUE}, {TRUE}, EnvSens)
  /\ InitSensors(SensorOrders)
  /\ InitRandomizer(BatteryOnly, {TRUE})

SpecSens == InitSens /\ [][Next]_vars

\* randomization: the configuration, the samples and the suspension vary
EnvRand == [sim |-> {ResetTrueAngles},
            motor |-> {ZeroVec},
            policy |-> {Vec(1, 1)},
            readings |-> {0},
            samples |-> {ParamBoundLo, 0, 1, ParamBoundHi},
            suspend |-> BOOLEAN,
            dyn |-> EmptyLists]

\* two parameters that write the motor strength, two parameters with a
\* rejection range, the control step followed by the latency, the
\* weakening of one leg, and a latency range that is long for the history
RandomizerConfigs ==
  {<<[name |-> "motor strength", range |-> <<0, 4>>],
     [name |-> "global motor strength", range |-> <<0, 4>>]>>,
   <<[name |-> "battery", range |-> <<0, 4, 1, 2>>],
     [name |-> "latency", range |-> <<-2, 2, 1, 2>>]>>,
   <<[name |-> "latency", range |-> <<0, 4>>],
     [name |-> "control step", range |-> <<1, 4>>]>>,
   <<[name |-> "leg weaken", range |-> <<0, 4>>]>>,
   <<[name |-> "latency", range |-> <<0, 12>>]>>}

InitRand ==
  /\ InitWith(Robots, {2}, {2}, {0}, {FALSE}, {TRUE}, {TRUE}, EnvRand)
  /\ InitSensors({<<"IMU">>})
  /\ InitRandomizer(RandomizerConfigs, {TRUE})

SpecRand == InitRand /\ [][Next]_vars

\* setter arguments: every length from one short to one long, masses that
\* differ from the URDF's, inertias with and without a negative value
DynInputs ==
  [base_mass |-> [ChassisLinks -> {1, 2}]
                   \cup [1 .. (NumChassisLinks - 1) -> {2}]
                   \cup [1 .. (NumChassisLinks + 1) -> {2}],
   leg_mass |-> [LegAndMotorLinks -> {2}]
                  \cup [1 .. (NumLegLinks + NumMotorLinks - 1) -> {2}],
   base_inertia |-> [ChassisLinks -> {<<2, 2>>, <<3, -1>>}]
                      \cup [1 .. (NumChassisLinks - 1) -> {<<2, 2>>}],
   leg_inertia |-> [LegAndMotorLinks -> {<<2, 2>>, <<-1, 3>>}]
                     \cup [1 .. (NumLegLinks + NumMotorLinks + 1) -> {<<2, 2>>}]]

\* the randomizer alone: one reading, one policy output, two samples
EnvSeed == [sim |-> {ResetTrueAngles},
            motor |-> {ZeroVec},
            policy |-> {Vec(1, 1)},
            readings |-> {0},
            samples |-> {0, 1},
            suspend |-> BOOLEAN,
            dyn |-> EmptyLists]

\* link dynamics: the arguments of the setters vary
EnvDyn == [sim |-> {ResetTrueAngles},
           motor |-> {ZeroVec},
           policy |-> {Vec(1, 1)},
           readings |-> {0},
           samples |-> {0, 1},
           suspend |-> {FALSE},
           dyn |-> DynInputs]

InitDyn ==
  /\ InitWith(Robots, {2}, {1}, {0}, {FALSE}, {FALSE}, {FALSE}, EnvDyn)
  /\ InitSensors({<<"IMU">>})
  /\ InitRandomizer(BatteryOnly, {TRUE})

SpecDyn == InitDyn /\ [][Next]_vars

\* seeded streams: a forbidden range the first sample of one seed falls in,
\* and vector samples
SeedConfigs ==
  {<<[name |-> "battery", range |-> <<0, 4, 1, 2>>]>>,
   <<[name |-> "motor strength", range |-> <<0, 4>>],
     [name |-> "leg weaken", range |-> <<0, 4>>]>>}

InitSeed ==
  /\ InitWith(Robots, {2}, {1}, {0}, {FALSE}, {FALSE}, {FALSE}, EnvSeed)
  /\ InitSensors({<<"IMU">>})
  /\ InitRandomizerWith(SeedConfigs, BOOLEAN, {1, 3})

SpecSeed == InitSeed /\ [][Next]_vars

\* the rejection loop: a forbidden range some sample escapes, one that holds
\* every sample, and a pair of parameters of which one can escape
LoopConfigs ==
  {<<[name |-> "battery", range |-> <<0, 4, 1, 2>>]>>,
   <<[name |-> "battery", range |-> <<0, 4, -2, 2>>]>>,
   <<[name |-> "battery", range |-> <<0, 4, 1, 2>>],
     [name |-> "latency", range |-> <<-2, 2, -2, 2>>]>>}

InitLoop ==
  /\ InitWith(Robots, {2}, {1}, {0}, {FALSE}, {FALSE}, {FALSE}, EnvSeed)
  /\ InitSensors({<<"IMU">>})
  /\ InitRandomizer(LoopConfigs, {TRUE})

\* the stream is fair: a batch that ends the loop, if one can be drawn at
\* every turn, is drawn at some turn
SpecLoop ==
  InitLoop /\ [][Next]_vars /\ SF_vars(resample /\ pc' = "idle")

(***************************************************************************)
(* Observation History Buffer: the delayed query and the buffer.           *)
(***************************************************************************)
\* the latencies queried
Latencies == -2 .. (HistoryCapacity + 1) * time_step

Delayed(L) == GetDelayedObservation(observation_history, L, time_step)

\* C1: for every reachable history and every latency L, the query returns
\* the newest entry (python index 0) verbatim when L <= 0 or the history
\* holds exactly one entry.
C1_DelayedNewest ==
  Len(observation_history) >= 1 =>
    \A L \in Latencies :
      (L <= 0 \/ Len(observation_history) = 1) =>
        Delayed(L) = RatVec(observation_history[1])

C1_Witness ==
  /\ Len(observation_history) >= 3
  /\ observation_history[1] # observation_history[2]
  /\ observation_history[1] # observation_history[Len(observation_history)]
  /\ last_op \in {"_StepInternal", "receive_obs"}

\* C2: when floor(L / time_step) + 1 reaches past the last index of the
\* history the query returns the oldest entry; for every latency the query
\* reads only entries the history holds.
C2_DelayedSaturates ==
  Len(observation_history) >= 1 =>
    \A L \in Latencies :
      LET len == Len(observation_history)
          p == DelayPlan(len, L, time_step)
      IN  /\ p.lo \in 1..len
          /\ p.hi \in 1..len
          /\ (L \div time_step) + 1 > len - 1 =>
               Delayed(L) = RatVec(observation_history[len])

C2_Witness ==
  /\ Len(observation_history) = HistoryCapacity
  /\ observation_history[HistoryCapacity] # observation_history[1]
  /\ observation_history[HistoryCapacity] #
       observation_history[HistoryCapacity - 1]
  /\ HistoryCapacity * time_step \in Latencies

\* C3: for every k in 0 .. len-1 the query at latency k * time_step equals
\* the entry at python index k, the boundary k = len-1 included.
C3_DelayedExactStep ==
  \A k \in 0 .. Len(observation_history) - 1 :
    VecEq(Delayed(k * time_step), RatVec(observation_history[k + 1]))

C3_Witness ==
  /\ Len(observation_history) >= 4
  /\ \A i \in 1 .. Len(observation_history) - 1 :
       observation_history[i] # observation_history[i + 1]

\* C4: for L > 0 with n = floor(L / time_step) and n+1 a valid index the
\* query returns (1-blend)*entry[n] + blend*entry[n+1] with
\* blend = (L - n*time_step)/time_step; with 5 entries and a step of two
\* units, the query at 5 units (2.5 steps) is (o2 + o3) / 2.
C4_DelayedBlend ==
  /\ \A L \in Latencies :
       LET n == L \div time_step
           r == L - n * time_step
       IN  (L > 0 /\ n + 1 <= Len(observation_history) - 1) =>
             \A m \in Motors :
               Delayed(L)[m].n * time_step =
                 Delayed(L)[m].d *
                   ((time_step - r) * observation_history[n + 1][m]
                      + r * observation_history[n + 2][m])
  /\ (Len(observation_history) = 5 /\ time_step = 2) =>
       \A m \in Motors :
         2 * Delayed(5)[m].n =
           Delayed(5)[m].d *
             (observation_history[3][m] + observation_history[4][m])

C4_Witness ==
  /\ Len(observation_history) = 5
  /\ time_step = 2
  /\ \E m \in Motors : observation_history[3][m] # observation_history[4][m]

\* the state part of C5
HistoryInv ==
  /\ Len(observation_history) <= HistoryCapacity
  /\ pc # "new" =>
       /\ Len(observation_history) >= 1
       /\ observation_history[1] = joint_states

\* the step part of C5: a reset leaves exactly the observation it records,
\* a recording pushes to the front and drops only what exceeds the
\* capacity, every other step leaves the history alone
HistoryStep ==
  IF pc \in {"new", "idle"} /\ last_op' \in {"reset_robot", "init_robot", "reset"}
    THEN observation_history' = <<joint_states'>>
  ELSE IF pc \in {"settle", "sense"} \/ (pc = "substep" /\ robot = "Quadruped")
    THEN observation_history' =
           <<joint_states'>> \o
             SubSeq(observation_history, 1,
                    Min(Len(observation_history), HistoryCapacity - 1))
  ELSE observation_history' = observation_history

\* C5: after any sequence of resets and recordings the history is newest
\* first with the last recorded observation at index 0, never longer than
\* the capacity (a recording at capacity drops exactly the oldest entry)
\* and never empty once an observation has been recorded.
C5_HistoryContract == [](HistoryInv) /\ [][HistoryStep]_vars

C5_Witness ==
  /\ Len(observation_history) = HistoryCapacity
  /\ state_action_counter > HistoryCapacity
  /\ observation_history[1] # observation_history[2]
  /\ observation_history[1] # observation_history[HistoryCapacity]

(***************************************************************************)
(* Safety Monitor.                                                         *)
(***************************************************************************)
\* the step is a full reset: reset_robot, init_robot or reset begins
ResetStep ==
  pc \in {"new", "idle"} /\ last_op' \in {"reset_robot", "init_robot", "reset"}

\* the step runs ApplyAction / apply_action
ApplyStep == pc \in {"settle", "substep"}

\* motor m goes from enabled to disabled in the step
Trips(m) == motor_enabled_list[m] /\ ~motor_enabled_list'[m]

\* ceil(OVERHEAT_SHUTDOWN_TIME / time_step) + 1
CeilPlusOne == ((OverheatShutdownTime + time_step - 1) \div time_step) + 1

\* floor(OVERHEAT_SHUTDOWN_TIME / time_step) + 1
FloorPlusOne == (OverheatShutdownTime \div time_step) + 1

C7_OverheatedTerminal ==
  /\ [][\A m \in Motors :
          ~motor_enabled_list[m] =>
            \/ ResetStep
            \/ /\ ~motor_enabled_list'[m]
               /\ ApplyStep => motor_torques'[m] = 0]_vars
  /\ [](\A m \in Motors : ~motor_enabled_list[m] => motor_torques[m] = 0)

C7_Witness ==
  \E m \in Motors :
    /\ ~motor_enabled_list[m]
    /\ overheat_counter[m] = 0
    /\ actual_torque[m] # 0
    /\ ~AboveThreshold(actual_torque[m])
    /\ motor_torques[m] = 0
    /\ last_op \in {"_StepInternal", "robot_step"}

\* C8: with protection on, every apply_action adds one to the counter of a
\* motor whose |actual torque| is above the threshold and zeroes the
\* counter of any other motor; a motor is disabled only in a step whose
\* streak is longer than limit/step, so steps above the threshold that a
\* compliant step separates do not add up to a trip.
C8_StreakCounter ==
  [][motor_overheat_protection =>
       \A m \in Motors :
         /\ ApplyStep =>
              overheat_counter'[m] =
                IF Abs(actual_torque'[m]) > OVERHEAT_SHUTDOWN_TORQUE
                  THEN overheat_counter[m] + 1 ELSE 0
         /\ ~ApplyStep /\ ~ResetStep =>
              overheat_counter'[m] = overheat_counter[m]
         /\ Trips(m) =>
              /\ overheat_counter'[m] * time_step > OverheatShutdownTime
              /\ overheat_counter'[m] = overheat_counter[m] + 1
     ]_vars

C8_Witness ==
  \E m \in Motors :
    /\ motor_overheat_protection
    /\ motor_enabled_list[m]
    /\ hot_steps[m] * time_step > OverheatShutdownTime
    /\ overheat_counter[m] < hot_steps[m]
    /\ overheat_counter[m] > 0

(***************************************************************************)
(* Action Shaper.                                                          *)
(***************************************************************************)
\* the step runs ProcessAction / process_action
ShapeStep == pc = "substep"

MapVec(v) == [m \in Motors |-> MapToMinusPiToPi(v[m])]

\* C9: with interpolation on, sub-step i of a control step with R repeats
\* shapes prev + ((i+1)/R) * (target - prev), prev being the target the
\* previous control step of the episode ended with.
C9_Interpolation ==
  [][(ShapeStep /\ enable_action_interpolation /\ prev_target # None) =>
       /\ substep \in 0 .. action_repeat - 1
       /\ prev_action' = RatVec(prev_target)
       /\ \A m \in Motors :
            proc_action'[m].n * action_repeat =
              proc_action'[m].d *
                (prev_target[m] * action_repeat
                   + (substep + 1) * (action[m] - prev_target[m]))]_vars

C9_Witness ==
  /\ enable_action_interpolation
  /\ action_repeat = 3
  /\ prev_target # None
  /\ prev_target # action
  /\ last_op \in {"_StepInternal", "robot_step"}
  /\ proc_action # None
  /\ ~VecEq(proc_action, RatVec(action))
  /\ ~VecEq(proc_action, RatVec(prev_target))

\* C10 as stated: while no previous filtered action exists the shaper
\* starts from the current true motor angles (read up to a whole turn, as
\* the shaper's start always lies in [-pi, pi)).
C10_Original ==
  [][(ShapeStep /\ enable_action_interpolation /\ filter_action = None) =>
       VecEq(prev_action', MapVec(RatVec(joint_states)))]_vars

\* C10: while no previous filtered action exists the shaper starts from the
\* motor angles as get_motor_angles reports them: the observation delayed by
\* the control latency, mapped to [-pi, pi); that is the mapped true angle
\* when the latency is <= 0 or the history holds one entry, and it is never
\* a zero the robot did not report.
C10_EpisodeStart ==
  [][(ShapeStep /\ enable_action_interpolation /\ filter_action = None) =>
       /\ prev_action' =
            MapVec(GetDelayedObservation(observation_history, control_latency,
                                         time_step))
       /\ (control_latency <= 0 \/ Len(observation_history) = 1) =>
            VecEq(prev_action', MapVec(RatVec(joint_states)))
       /\ \A m \in Motors :
            proc_action'[m].n * (prev_action'[m].d * action_repeat) =
              proc_action'[m].d *
                (prev_action'[m].n * action_repeat
                   + (substep + 1) * (action[m] * prev_action'[m].d
                                        - prev_action'[m].n))]_vars

C10_Witness ==
  /\ robot = "Minitaur"
  /\ pc = "sense"
  /\ enable_action_interpolation
  /\ step_counter = 0
  /\ substep = 1
  /\ control_latency > 0
  /\ ~VecEq(prev_action, RatVec(joint_states))
  /\ ~VecEq(prev_action, RatVec(ZeroVec))

(***************************************************************************)
(* Action filter seeding.                                                  *)
(***************************************************************************)
\* the step passes an action through the filter: _FilterAction / _filter
FilterCall ==
  enable_action_filter /\ pc = "idle" /\ last_op' \in {"set_action", "set_act"}

\* C11 as stated: the first filter call after a reset seeds the history with
\* the current true motor angles (read up to a whole turn), and no filter
\* call runs on the zero-filled history.
C11_Original ==
  /\ [](filter_history # "zeros_filtered")
  /\ [][(FilterCall /\ filter_history = "zeros") =>
          VecEq(filter_seed', MapVec(RatVec(joint_states)))]_vars

\* C11: after a reset has zeroed the filter, the first filter call is
\* preceded by init_history with the motor angles as GetMotorAngles reports
\* them (the observation delayed by the control latency, mapped to
\* [-pi, pi); the mapped true angles when the latency is <= 0 or the history
\* holds one entry); later calls of the episode keep that seeding, and no
\* filter call ever runs on the zero-filled history.
C11_FilterSeeded ==
  /\ [](filter_history # "zeros_filtered")
  /\ [](enable_action_filter =>
          (filter_history = "zeros") = (filter_seed = None))
  /\ [][FilterCall =>
          /\ filter_history' = "seeded"
          /\ filter_history = "zeros" =>
               /\ filter_seed' =
                    MapVec(GetDelayedObservation(observation_history,
                                                 control_latency, time_step))
               /\ (control_latency <= 0 \/ Len(observation_history) = 1) =>
                    VecEq(filter_seed', MapVec(RatVec(joint_states)))
          /\ filter_history # "zeros" => filter_seed' = filter_seed]_vars

C11_Witness ==
  /\ enable_action_filter
  /\ last_op = "set_action"
  /\ step_counter = 0
  /\ filter_history = "seeded"
  /\ control_latency > 0
  /\ ~VecEq(filter_seed, MapVec(RatVec(joint_states)))
  /\ ~VecEq(filter_seed, RatVec(ZeroVec))


(***************************************************************************)
(* Safety clamp of the motor command.                                      *)
(***************************************************************************)
\* x lies within c - MAX_MOTOR_ANGLE_CHANGE_PER_STEP and c + the same
WithinStep(x, c) ==
  /\ RatLe(RatAdd(c, -MAX_MOTOR_ANGLE_CHANGE_PER_STEP), x)
  /\ RatLe(x, RatAdd(c, MAX_MOTOR_ANGLE_CHANGE_PER_STEP))

\* the command the running step hands to ApplyAction before the clamp
ShapedCommand ==
  IF pc = "substep" THEN proc_action'
  ELSE RatVec(IF settle_left.init > 0 THEN InitMotorAngle
              ELSE settle_left.angles)

\* the true angles lie in [-pi, pi), where the angle mapping changes nothing
TrueAnglesInTurn == \A m \in Motors : -PI <= joint_states[m] /\ joint_states[m] < PI

\* C12 as stated, for true angles the mapping leaves alone: the command
\* handed to the motor model lies within the current true angle -/+ the
\* largest angle change per step.
C12_Original ==
  [][(ApplyStep /\ TrueAnglesInTurn) =>
       \A m \in Motors :
         WithinStep(motor_commands'[m], Rat(joint_states[m]))]_vars

\* C12: for every apply_action the command handed to the motor model lies
\* component-wise within reading -/+ max step, the reading being
\* get_motor_angles(): the observation delayed by the control latency,
\* mapped to [-pi, pi).  A shaped command inside the band passes unchanged,
\* one outside lands on the nearer edge.  The band is centred on the true
\* angle when that lies in [-pi, pi) and the latency is <= 0 or the history
\* holds one entry.
C12_ClampAroundReading ==
  [][ApplyStep =>
       LET cur == MapVec(GetDelayedObservation(observation_history,
                                               control_latency, time_step))
       IN  \A m \in Motors :
             /\ WithinStep(motor_commands'[m], cur[m])
             /\ WithinStep(ShapedCommand[m], cur[m]) =>
                  RatEq(motor_commands'[m], ShapedCommand[m])
             /\ RatLe(RatAdd(cur[m], MAX_MOTOR_ANGLE_CHANGE_PER_STEP),
                      ShapedCommand[m]) =>
                  RatEq(motor_commands'[m],
                        RatAdd(cur[m], MAX_MOTOR_ANGLE_CHANGE_PER_STEP))
             /\ RatLe(ShapedCommand[m],
                      RatAdd(cur[m], -MAX_MOTOR_ANGLE_CHANGE_PER_STEP)) =>
                  RatEq(motor_commands'[m],
                        RatAdd(cur[m], -MAX_MOTOR_ANGLE_CHANGE_PER_STEP))
             /\ (TrueAnglesInTurn /\
                 (control_latency <= 0 \/ Len(observation_history) = 1)) =>
                  WithinStep(motor_commands'[m], Rat(joint_states[m]))]_vars

C12_Witness ==
  /\ robot = "Minitaur"
  /\ pc = "sense"
  /\ control_latency > 0
  /\ TrueAnglesInTurn
  /\ \E m \in Motors :
       /\ ~RatEq(motor_commands[m], proc_action[m])
       /\ ~WithinStep(motor_commands[m], Rat(joint_states[m]))


(***************************************************************************)
(* Sensor Composer.                                                        *)
(***************************************************************************)
\* the step composes an observation: the end of reset_robot and of
\* set_action, and get_obs
ComposeStep ==
  \/ /\ robot = "Quadruped" /\ pc \in {"new", "idle", "settle"}
     /\ pc' = "idle" /\ last_op' = "reset_robot"
  \/ robot = "Quadruped" /\ pc = "substep" /\ pc' = "idle"
  \/ pc = "observe"

\* the registration orders of the sensors registered
Reorderings ==
  {q \in [1..Len(sensors) -> Range(sensors)] :
     \A i, j \in DOMAIN q : i # j => q[i] # q[j]}

\* the keys of a composed observation are in the order of their names
KeysSorted(obs) ==
  \A i, j \in DOMAIN obs : i < j => NameRank(obs[i][1]) < NameRank(obs[j][1])

\* C13: the composed observation lists one entry per registered sensor,
\* ordered by sensor name, each with the value that sensor reports; it is
\* the observation any other registration order of the same sensors gives.
C13_ComposeOrderFree ==
  /\ [](observations # None =>
          /\ KeysSorted(observations)
          /\ {observations[i][1] : i \in DOMAIN observations} = Range(sensors))
  /\ [][ComposeStep =>
          /\ \A i \in DOMAIN observations' :
               observations'[i][2] = sensor_value'[observations'[i][1]]
          /\ \A q \in Reorderings :
               GetObservation(q, sensor_value') = observations']_vars

C13_Witness ==
  /\ observations # None
  /\ Len(sensors) = 3
  /\ \E i \in 1..2 : NameRank(sensors[i]) > NameRank(sensors[i + 1])
  /\ \E i, j \in DOMAIN observations : observations[i][2] # observations[j][2]
  /\ last_op \in {"_StepInternal", "get_obs"}

\* the calls made on sensor n in the log
CallsOn(log, op, n) == {i \in DOMAIN log : log[i] = <<op, n>>}

\* the step ends a control step
ControlStepEnd ==
  \/ robot = "Quadruped" /\ pc = "substep" /\ pc' = "idle"
  \/ pc = "observe"

\* the step ends an episode reset: reset_robot returns, or reset runs
ResetEnd ==
  \/ /\ robot = "Quadruped" /\ pc \in {"new", "idle", "settle"}
     /\ pc' = "idle" /\ last_op' = "reset_robot"
  \/ robot = "Minitaur" /\ pc = "idle" /\ last_op' = "reset"

PhysicalValue(sample, range) ==
  [n |-> range[1] * (ParamBoundHi - ParamBoundLo)
           + (sample - ParamBoundLo) * (range[2] - range[1]),
   d |-> ParamBoundHi - ParamBoundLo]

\* the value handed to the setter in a logged call equals x
Handed(call, name, sample, range) ==
  IF name = "motor strength"
    THEN \A m \in Motors : RatEq(call[2][m], PhysicalValue(sample[m], range))
  ELSE IF name = "global motor strength"
    THEN \A m \in Motors : RatEq(call[2][m], PhysicalValue(sample, range))
  ELSE IF name = "leg weaken"
    THEN VecEq(call[2], LegWeakenRatios(sample[1],
                                        PhysicalValue(sample[2], range)))
  ELSE RatEq(call[2], PhysicalValue(sample, range))

\* a randomize_env that was not suspended has just ended
Randomized ==
  /\ robot = "Minitaur"
  /\ pc = "idle"
  /\ last_op \in {"reset", "randomize_env"}
  /\ enable_randomizer
  /\ ~suspend_randomization

\* C15 as stated: after randomize_env every configured parameter has been
\* handed to its robot setter with the value
\* lo + (s - lo_b)/(hi_b - lo_b) * (hi - lo) of its stored sample s.
C15_TransformOnto ==
  Randomized =>
    LET items == SortedParams(randomization_param_dict)
        n == Len(items)
    IN  /\ rand_error = "none"
        /\ Len(setter_log) >= n
        /\ \A i \in 1..n :
             Handed(setter_log[Len(setter_log) - n + i], items[i].name,
                    randomization_param_value_dict[items[i].name],
                    items[i].range)


\* the physical value of a component of the stored sample of parameter n
\* lies inside the forbidden range of n
InForbiddenRange(n, range) ==
  \E c \in Components(n, randomization_param_value_dict[n]) :
    LET v == PhysicalValue(c, range) IN
    RatLe(Rat(range[3]), v) /\ RatLe(v, Rat(range[4]))

\* C16 as stated: when a randomize_env that was not suspended returns, no
\* parameter with a forbidden range [rl, rh] has its physical value inside
\* that range.
C16_NoForbiddenValue ==
  (Randomized /\ rand_error = "none") =>
    \A i \in DOMAIN randomization_param_dict :
      Len(randomization_param_dict[i].range) = 4 =>
        ~InForbiddenRange(randomization_param_dict[i].name,
                          randomization_param_dict[i].range)

\* the step is a reset of a Minitaur whose randomizer is suspended
SuspendedRandomize ==
  /\ robot = "Minitaur"
  /\ pc = "idle"
  /\ last_op' = "reset"
  /\ enable_randomizer
  /\ suspend_randomization

\* C17: a suspended randomize_env draws nothing and leaves the stored sample
\* as it is.  With a stored sample, a call that returns has handed every
\* configured parameter, in the order of the configuration, to its setter
\* with the value the transform gives for the stored sample; with no stored
\* sample it calls no setter and changes no setting.
C17_SuspendedReplay ==
  [][SuspendedRandomize =>
       /\ rand_draws' = 0
       /\ randomization_param_value_dict' = randomization_param_value_dict
       /\ (randomization_param_value_dict # << >> /\ rand_error' = "none") =>
            /\ Len(setter_log') = Len(randomization_param_dict)
            /\ \A i \in DOMAIN randomization_param_dict :
                 Handed(setter_log'[i], randomization_param_dict[i].name,
                        randomization_param_value_dict[
                          randomization_param_dict[i].name],
                        randomization_param_dict[i].range)
       /\ randomization_param_value_dict = << >> =>
            /\ setter_log' = << >>
            /\ rand_error' = "none"
            /\ UNCHANGED <<control_latency, battery_voltage,
                           motor_strength_ratios>>]_vars

C17_Witness ==
  /\ robot = "Minitaur"
  /\ last_op = "reset"
  /\ suspend_randomization
  /\ rand_error = "none"
  /\ rand_draws = 0
  /\ Len(setter_log) = 2
  /\ randomization_param_value_dict # << >>
  /\ control_latency > 0

\* the step replays the stored sample right after the randomize_env that
\* drew it
ReplayAfterDraw ==
  /\ Randomized
  /\ rand_error = "none"
  /\ last_op' = "set_env_from_randomization_parameters"

\* C18 as stated: replaying the stored sample leaves the robot with the
\* settings the randomize_env that drew the sample left.
C18_ReplayIdentical ==
  [][ReplayAfterDraw =>
       /\ control_latency' = control_latency
       /\ RatEq(battery_voltage', battery_voltage)
       /\ VecEq(motor_strength_ratios', motor_strength_ratios)]_vars

(***************************************************************************)
(* Dynamics setters: configuration errors.                                 *)
(***************************************************************************)
DynamicsSetters ==
  {"set_base_mass", "set_leg_mass", "set_base_inertia", "set_leg_inertia"}

\* the step is a call of the named dynamics setter
SetterStep(name) == pc = "idle" /\ last_op' = name

\* C19: a call of the base-mass setter with an array whose length differs
\* from the number of chassis links raises a ValueError whose message gives
\* the length of the array and the number of chassis links, and the call
\* changes no mass or inertia in the simulator.
C19_BaseMassLength ==
  [][SetterStep("set_base_mass")
       /\ Len(setter_call'.arg) # NumChassisLinks
     => /\ setter_call'.raised =
             LengthError("base_mass", Len(setter_call'.arg), NumChassisLinks)
        /\ dynamics' = dynamics]_vars

\* the base-mass setter was called with an array one element short, after a
\* call that changed the masses: the error names both lengths and the masses
\* set before are still in place
C19_Witness ==
  /\ last_op = "set_base_mass"
  /\ Len(setter_call.arg) = NumChassisLinks - 1
  /\ setter_call.raised.type = "ValueError"
  /\ setter_call.raised.got = NumChassisLinks - 1
  /\ setter_call.raised.expected = NumChassisLinks
  /\ dynamics.base_mass # UrdfDynamics.base_mass

\* C20: a call of a mass or inertia setter that raises has changed no mass
\* and no inertia in the simulator.
C20_NoPartialState ==
  [][(\E name \in DynamicsSetters : SetterStep(name))
       /\ setter_call'.raised.type # "none"
     => dynamics' = dynamics]_vars

\* a value lies within param_bounds
InParamBounds(c) == ParamBoundLo <= c /\ c <= ParamBoundHi

\* every element of the stored sample of a parameter
Elements(name, sample) ==
  IF name = "motor strength" THEN {sample[m] : m \in Motors}
  ELSE IF name = "leg weaken" THEN {sample[1], sample[2]}
  ELSE {sample}

\* C21 as stated: after a randomize_env that was not suspended, every
\* element of every stored sample lies within param_bounds.
C21_Original ==
  Randomized =>
    \A n \in DOMAIN randomization_param_value_dict :
      \A c \in Elements(n, randomization_param_value_dict[n]) :
        InParamBounds(c)

\* C21: after a randomize_env that was not suspended, every stored sample is
\* the drawn one and lies within param_bounds, element by element for
\* "motor strength"; the sample of "leg weaken" is the pair of the index of
\* the leg, one of 0 .. NUM_LEGS - 1, and a ratio within param_bounds.
C21_SampleInBounds ==
  Randomized =>
    \A n \in DOMAIN randomization_param_value_dict :
      LET s == randomization_param_value_dict[n] IN
      IF n = "leg weaken"
        THEN s[1] \in 0 .. (NUM_LEGS - 1) /\ InParamBounds(s[2])
        ELSE \A c \in Elements(n, s) : InParamBounds(c)

\* a leg whose index lies above param_bounds was weakened with a ratio drawn
\* at the upper bound
C21_Witness ==
  /\ Randomized
  /\ setter_log # << >>
  /\ "leg weaken" \in DOMAIN randomization_param_value_dict
  /\ randomization_param_value_dict["leg weaken"][1] > ParamBoundHi
  /\ randomization_param_value_dict["leg weaken"][2] = ParamBoundHi

(***************************************************************************)
(* Order of the events of a physics sub-step.                              *)
(***************************************************************************)
\* the step records an observation: the reading of the simulator is put at
\* the front of the history and the delayed reading is taken from it
Records ==
  /\ observation_history' = AppendLeft(observation_history, joint_states')
  /\ control_observation' =
       GetDelayedObservation(observation_history', control_latency, time_step)

\* C22: in a sub-step the command clamped and converted is the one shaped in
\* that sub-step, clamped around the reading recorded before the sub-step;
\* the overheat test counts the torque converted in the sub-step; the
\* torques sent to the simulator are gated by the enabled flags the test
\* left; the observation is recorded last, once: in the same step for
\* Quadruped, and for Minitaur in the receive_obs that follows robot_step,
\* with no observation recorded by robot_step and no torque changed by
\* receive_obs.
C22_SubstepOrder ==
  [][/\ ApplyStep =>
          /\ pc = "substep" =>
               /\ proc_action' =
                    ProcessAction(action, substep, filter_action,
                                  control_observation,
                                  enable_action_interpolation, action_repeat)
               /\ VecEq(motor_commands',
                        ClipMotorCommands(proc_action', control_observation))
          /\ overheat_counter' =
               OverheatCounterAfter(overheat_counter, actual_torque',
                                    motor_overheat_protection)
          /\ motor_enabled_list' =
               MotorEnabledAfter(motor_enabled_list, overheat_counter,
                                 actual_torque', motor_overheat_protection,
                                 time_step)
          /\ motor_torques' = AppliedTorques(actual_torque', motor_enabled_list')
          /\ IF robot = "Quadruped" THEN Records
             ELSE /\ pc' = "sense"
                  /\ UNCHANGED <<observation_history, joint_states,
                                 control_observation>>
     /\ pc = "sense" =>
          /\ Records
          /\ pc' \in {"substep", "observe"}
          /\ UNCHANGED <<motor_commands, actual_torque, motor_torques,
                         overheat_counter, motor_enabled_list, proc_action>>
    ]_vars

\* a Minitaur between robot_step and receive_obs, in the sub-step whose
\* overheat test switched a motor off: the torque converted for the motor is
\* above the threshold and the torque sent to the simulator is zero
C22_Witness ==
  /\ robot = "Minitaur"
  /\ pc = "sense"
  /\ \E m \in Motors :
       /\ ~motor_enabled_list[m]
       /\ AboveThreshold(actual_torque[m])
       /\ motor_torques[m] = 0
       /\ overheat_counter[m] = FloorPlusOne

(***************************************************************************)
(* Randomization Engine: the test of the rejection loop.                   *)
(***************************************************************************)
\* the step is one pass of a randomize_env that is not suspended, over a
\* configuration with a forbidden range, and the pass raised nothing
RejectionPass ==
  /\ robot = "Minitaur"
  /\ enable_randomizer
  /\ ~suspend_randomization
  /\ \/ pc = "idle" /\ last_op' = "reset"
     \/ pc = "resample"
  /\ rand_error' = "none"
  /\ \E i \in DOMAIN randomization_param_dict :
       Len(randomization_param_dict[i].range) = 4

\* every parameter with a forbidden range has the physical value of every
\* component of its sample in dict inside that range
AllPhysicalForbidden(dict) ==
  \A i \in DOMAIN randomization_param_dict :
    LET n == randomization_param_dict[i].name
        range == randomization_param_dict[i].range
    IN  Len(range) = 4 =>
          \A c \in Components(n, dict[n]) :
            LET v == PhysicalValue(c, range) IN
            RatLe(Rat(range[3]), v) /\ RatLe(v, Rat(range[4]))

\* C23 as stated: after a pass over all the parameters the batch is drawn
\* again exactly when the physical value of every parameter with a forbidden
\* range lies inside that range.
C23_ResampleOnPhysical ==
  [][RejectionPass =>
       (pc' = "resample" <=>
          AllPhysicalForbidden(randomization_param_value_dict'))]_vars

(***************************************************************************)
(* Randomization Engine: termination of the rejection loop.                *)
(***************************************************************************)
\* the forbidden ranges of the configuration
Forbidden == RejectionParamRange(randomization_param_dict)

\* some sample the stream can give lies outside the forbidden range of some
\* parameter: a batch that ends the loop can be drawn
Escapable ==
  \E n \in DOMAIN Forbidden : \E c \in env.samples :
    c < Forbidden[n][1] \/ c > Forbidden[n][2]

AllEnabled(en) == \A m \in Motors : en[m]

\* the step begins reset_robot, or is init_robot or reset
ResetBegin ==
  pc \in {"new", "idle"} /\ last_op' \in {"reset_robot", "init_robot", "reset"}

\* the step returns from reset_robot, init_robot or reset
ResetReturn ==
  \/ robot = "Quadruped" /\ pc \in {"new", "idle", "settle"}
       /\ pc' = "idle" /\ last_op' = "reset_robot"
  \/ robot = "Minitaur" /\ ResetBegin

Commanded == {[m \in Motors |-> a[m] + InitMotorAngle[m]] : a \in env.policy}

\* C26 as stated: with the filter off and interpolation on, the target the
\* sub-steps interpolate toward is the action commanded for the control
\* step; with the filter on and interpolation off, every sub-step shapes the
\* filtered action unchanged.
C26_IndependentToggles ==
  [][ShapeStep =>
       /\ (~enable_action_filter /\ enable_action_interpolation) =>
            /\ action \in Commanded
            /\ VecEq(proc_action',
                     Lerp(PrevAction(filter_action, control_observation),
                          action, substep, action_repeat))
       /\ (enable_action_filter /\ ~enable_action_interpolation) =>
            VecEq(proc_action', RatVec(action))]_vars

(***************************************************************************)
(* Randomization Engine: the seeded stream.                                *)
(***************************************************************************)
\* a randomize_env on a randomizer just constructed with the seed and the
\* configuration of this one: the stream starts at the seed, and turns are
\* taken until a batch is not rejected
RECURSIVE FreshRun(_, _)
FreshRun(pos, turns) ==
  LET items == SortedParams(randomization_param_dict)
      R0 == [Settings(<< >>, 0) EXCEPT !.dict = << >>, !.pos = pos]
      R1 == RandomizeAll(R0, items,
                         SeededBatch(items, randomization_seed, pos), TRUE)
  IN  IF turns < StreamPeriod /\ R1.error = "none" /\ DOMAIN Forbidden # {}
           /\ CheckAllInRejectionRange(R1.dict, Forbidden)
        THEN FreshRun((pos + PassDraws(items)) % StreamPeriod, turns + 1)
        ELSE R1

\* C27: with a seed set, every randomize_env that is not suspended leaves
\* the stored sample, and hands the setters the values, that a randomizer
\* just constructed with the same seed and configuration would: whatever
\* calls, replays and turns of the rejection loop came before.
C27_SeededReproducible ==
  (Randomized /\ randomization_seed # NoSeed /\ rand_error = "none") =>
    /\ randomization_param_value_dict = FreshRun(0, 0).dict
    /\ setter_log = FreshRun(0, 0).log

\* a seeded randomize_env has returned after a further turn of the rejection
\* loop, in an episode begun after control steps of an earlier one
C27_Witness ==
  /\ Randomized
  /\ randomization_seed # NoSeed
  /\ rand_error = "none"
  /\ last_op = "randomize_env"
  /\ np_random # 0
  /\ setter_log # << >>

(***************************************************************************)
(* Observation History Buffer: the capacity against the latency.           *)
(***************************************************************************)
\* C28: in every reachable state the capacity of the history is at least
\* control latency / step duration + 2, whatever latency set_ctrl_latency
\* (called by the latency randomizer) installed.  The capacity is the
\* constant of the constructor and no setter compares the latency with it.
C28_CapacityCoversLatency ==
  HistoryCapacity * time_step >= control_latency + 2 * time_step

(***************************************************************************)
(* Randomization Engine: when it runs.                                     *)
(***************************************************************************)
\* an action has been applied since the reset that began the episode
Applied == state_action_counter > 0

\* C29 as stated: every reset is followed by exactly one randomize_env
\* before any apply_action of the new episode.
C29_Original ==
  (pc # "new" /\ (Applied \/ pc \in {"idle", "substep", "sense", "observe"}))
    => episode.randomize_env = 1

\* C29: Minitaur.reset with the randomizer enabled invokes randomize_env
\* exactly once, inside the reset and before any action of the new episode
\* is applied, and nothing between the control steps of the episode invokes
\* it again; Minitaur.reset with the randomizer disabled, Minitaur.init_robot
\* and Quadruped.reset_robot invoke none.
C29_OncePerReset ==
  /\ [](episode.randomize_env =
          IF episode.reset = "reset" /\ enable_randomizer THEN 1 ELSE 0)
  /\ [][/\ episode.randomize_env' # episode.randomize_env => ~Applied'
        /\ (pc = "idle" /\ pc' = "resample") => (last_op' = "reset" /\ ~Applied')
        /\ (last_op' \in {"set_act", "robot_step", "receive_obs", "get_obs",
                        "set_action", "_StepInternal"})
             => UNCHANGED <<episode, control_latency, randvars>>]_vars

\* control steps of an episode begun by a reset that ran the randomizer
C29_Witness ==
  /\ episode = [reset |-> "reset", randomize_env |-> 1]
  /\ last_op = "get_obs"
  /\ step_counter > 1
  /\ randomization_param_value_dict # << >>

(***************************************************************************)
(* Action Shaper: continuity across control steps.                         *)
(***************************************************************************)
\* the operations of a control step
ControlOps == {"set_action", "_StepInternal", "set_act", "robot_step",
               "receive_obs", "get_obs"}

====
